---- MODULE Spec2Model ----
(***************************************************************************)
(* Model of deafrica_tools/temporal.py: the land-surface-phenology         *)
(* pipeline xr_phenology, its NaN-safe arg-extremum helper allNaN_arg, the *)
(* landmark extractors _vpos .. _ros, and the dask map_blocks dispatch.    *)
(*                                                                         *)
(* A grid is a sequence of pixels; a pixel is a sequence of samples along  *)
(* time; a sample is NaN (the empty tuple) or Num(v) (a one-tuple holding  *)
(* an integer).  Timestamps are day numbers counted from 1 January of a    *)
(* non-leap year.  Time indices are 0-based as in the source.              *)
(***************************************************************************)
EXTENDS Integers, Sequences, FiniteSets, TLC

\* ------------------------------------------------------------------ bounds
\* pixels in the grid, and the largest sample value
NumPix == 2
MaxVal == 2

\* ------------------------------------------------------- floating samples
NaN == <<>>
Num(v) == <<v>>
IsNaN(x) == x = NaN
Val(x) == x[1]

Abs(n) == IF n < 0 THEN -n ELSE n
MaxOf(S) == CHOOSE m \in S : \A n \in S : n <= m
MinOf(S) == CHOOSE m \in S : \A n \in S : m <= n

RECURSIVE Gcd(_, _)
Gcd(a, b) == IF b = 0 THEN a ELSE Gcd(b, a % b)

\* outcome of a Python call: a returned value or a raised exception
Ok(v) == [exc |-> "none", val |-> v]
Raise(e) == [exc |-> e, val |-> <<>>]

\* float subtraction and float division (IEEE: x/0 is +-inf, 0/0 is NaN).
\* A quotient is NaN or a reduced fraction <<num, den>>, den >= 0.
FSub(a, b) == IF IsNaN(a) \/ IsNaN(b) THEN NaN ELSE Num(Val(a) - Val(b))
FDiv(a, b) ==
    IF IsNaN(a) \/ IsNaN(b) THEN NaN
    ELSE LET n == Val(a)
             d == Val(b)
         IN  IF d = 0
             THEN IF n = 0 THEN NaN ELSE <<(IF n > 0 THEN 1 ELSE -1), 0>>
             ELSE LET g == Gcd(Abs(n), Abs(d))
                      s == IF d < 0 THEN -1 ELSE 1
                  IN  <<(s * n) \div g, (s * d) \div g>>

\* timestamp.dt.dayofyear
DayOfYear(t) == (t % 365) + 1

\* ------------------------------------------------------ reductions on time
Valid(s) == {i \in 1..Len(s) : ~IsNaN(s[i])}
AllNull(s) == Valid(s) = {}

\* da.max("time") / da.min("time"), skipna
NanMax(s) == IF AllNull(s) THEN NaN ELSE Num(MaxOf({Val(s[i]) : i \in Valid(s)}))
NanMin(s) == IF AllNull(s) THEN NaN ELSE Num(MinOf({Val(s[i]) : i \in Valid(s)}))

\* values of the whole grid that are not NaN: da.max() / da.min() range over these
GridValues(g) == UNION {{Val(g[p][i]) : i \in Valid(g[p])} : p \in 1..Len(g)}

\* numpy argmax / argmin of a NaN-free slice: 0-based, first occurrence
ArgMaxFirst(s) ==
    (CHOOSE i \in 1..Len(s) :
        /\ \A j \in 1..Len(s) : Val(s[j]) <= Val(s[i])
        /\ \A j \in 1..(i - 1) : Val(s[j]) < Val(s[i])) - 1
ArgMinFirst(s) ==
    (CHOOSE i \in 1..Len(s) :
        /\ \A j \in 1..Len(s) : Val(s[i]) <= Val(s[j])
        /\ \A j \in 1..(i - 1) : Val(s[i]) < Val(s[j])) - 1

\* da.fillna(c) on one slice
FillNa(s, c) == [i \in 1..Len(s) |-> IF IsNaN(s[i]) THEN c ELSE s[i]]

(***************************************************************************)
(* allNaN_arg(da, "time", stat).  The fill constant comes from the global  *)
(* extremum of the grid; when the grid holds no number at all that         *)
(* constant is NaN, fillna leaves every slice all-NaN and nanargmin /      *)
(* nanargmax raise ValueError("All-NaN slice encountered").  Otherwise     *)
(* the result is the per-pixel index, NaN where the slice was all-NaN.     *)
(* A stat other than "max"/"min" falls off the end and returns None.       *)
(***************************************************************************)
allNaN_arg(g, stat) ==
    LET mask == [p \in 1..Len(g) |-> AllNull(g[p])]
        vals == GridValues(g)
    IN  IF stat = "max"
        THEN IF vals = {} THEN Raise("ValueError")
             ELSE LET c == Num(MinOf(vals) - 1)
                  IN  Ok([p \in 1..Len(g) |->
                          IF mask[p] THEN NaN ELSE Num(ArgMaxFirst(FillNa(g[p], c)))])
        ELSE IF stat = "min"
        THEN IF vals = {} THEN Raise("ValueError")
             ELSE LET c == Num(MaxOf(vals) + 1)
                  IN  Ok([p \in 1..Len(g) |->
                          IF mask[p] THEN NaN ELSE Num(ArgMinFirst(FillNa(g[p], c)))])
        ELSE Ok("None")

\* --------------------------------------------------- landmark extractors
\* _vpos, _trough, _aos over the grid
_vpos(g) == [p \in 1..Len(g) |-> NanMax(g[p])]
_trough(g) == [p \in 1..Len(g) |-> NanMin(g[p])]
_aos(vpos, trough) == [p \in 1..Len(vpos) |-> FSub(vpos[p], trough[p])]

\* argmax that does not skip NaN (numpy.argmax: the first NaN wins)
ArgMaxTimeNoSkip(g) ==
    Ok([p \in 1..Len(g) |->
        IF Valid(g[p]) # 1..Len(g[p])
        THEN (CHOOSE i \in 1..Len(g[p]) :
                  IsNaN(g[p][i]) /\ \A j \in 1..(i - 1) : ~IsNaN(g[p][j])) - 1
        ELSE ArgMaxFirst(g[p])])

\* da.argmax("time"): nanargmax, first occurrence, raises on an all-NaN slice
ArgMaxTime(g) ==
    IF \E p \in 1..Len(g) : AllNull(g[p]) THEN Raise("ValueError")
    ELSE Ok([p \in 1..Len(g) |->
             LET c == Num(MinOf({Val(g[p][i]) : i \in Valid(g[p])}) - 1)
             IN  ArgMaxFirst(FillNa(g[p], c))])

\* _pos: the selected timestamp per pixel; its dayofyear is the statistic.
\* A position-valued landmark is kept as the selected timestamp (the "time"
\* coordinate of the result) so that later extractors can read both.
_pos(g, time) ==
    LET a == ArgMaxTime(g)
    IN  IF a.exc # "none" THEN a
        ELSE Ok([p \in 1..Len(g) |-> time[a.val[p] + 1]])

(***************************************************************************)
(* DataArray.differentiate("time") = numpy.gradient(f, t, edge_order=1)    *)
(* along time, for a slice of at least two samples.  Uniformly spaced      *)
(* timestamps use the central difference (f[i+1] - f[i-1]) / 2h, which     *)
(* does not read f[i]; otherwise the three-point formula reads f[i-1],     *)
(* f[i] and f[i+1].  The edges use one-sided differences.  Any NaN operand *)
(* gives NaN.  The source only tests the derivative's sign and whether it  *)
(* is zero, so each value is kept multiplied by its positive denominator.  *)
(***************************************************************************)
UniformTime(time) ==
    \A i \in 1..(Len(time) - 1) : time[i + 1] - time[i] = time[2] - time[1]

Gradient(s, time) ==
    LET n == Len(s)
        uni == UniformTime(time)
        Edge(a, b) == FSub(s[b], s[a])
        Inner(i) ==
            IF uni
            THEN FSub(s[i + 1], s[i - 1])
            ELSE IF IsNaN(s[i - 1]) \/ IsNaN(s[i]) \/ IsNaN(s[i + 1]) THEN NaN
                 ELSE LET dx1 == time[i] - time[i - 1]
                          dx2 == time[i + 1] - time[i]
                      IN  Num(dx1 * dx1 * Val(s[i + 1])
                              + (dx2 - dx1) * (dx1 + dx2) * Val(s[i])
                              - dx2 * dx2 * Val(s[i - 1]))
    IN  [i \in 1..n |-> IF i = 1 THEN Edge(1, 2)
                        ELSE IF i = n THEN Edge(n - 1, n)
                        ELSE Inner(i)]

\* twice DataArray.median("time") (nanmedian): NaN when nothing is valid
Median2(s) ==
    IF AllNull(s) THEN NaN
    ELSE LET idx == Valid(s)
             k == Cardinality(idx)
             \* rank of sample i among the valid ones, ties broken by position
             Rank(i) == Cardinality({j \in idx : \/ Val(s[j]) < Val(s[i])
                                                 \/ Val(s[j]) = Val(s[i]) /\ j <= i})
             At(r) == Val(s[CHOOSE i \in idx : Rank(i) = r])
         IN  IF k % 2 = 1 THEN Num(2 * At((k + 1) \div 2))
             ELSE Num(At(k \div 2) + At(k \div 2 + 1))

\* twice (candidates - median), per sample
Distance2(cand) ==
    LET m == Median2(cand)
    IN  [i \in 1..Len(cand) |->
            IF IsNaN(cand[i]) \/ IsNaN(m) THEN NaN ELSE Num(2 * Val(cand[i]) - Val(m))]

FAbs(s) == [i \in 1..Len(s) |-> IF IsNaN(s[i]) THEN NaN ELSE Num(Abs(Val(s[i])))]

\* greenup = da.where(da.time < pos.time): the samples before the peak
Greenup(s, time, peak) == [i \in 1..Len(s) |-> IF time[i] < peak THEN s[i] ELSE NaN]

\* lines 108-112: of those, the samples whose slope is > 0
PosGreenup(s, time, peak) ==
    LET greenup == Greenup(s, time, peak)
        green_deriv == Gradient(greenup, time)
        pos_green_deriv == [i \in 1..Len(s) |->
            IF ~IsNaN(green_deriv[i]) /\ Val(green_deriv[i]) > 0
            THEN green_deriv[i] ELSE NaN]
    IN  [i \in 1..Len(s) |-> IF ~IsNaN(pos_green_deriv[i]) THEN greenup[i] ELSE NaN]

\* senesce = da.where(da.time > pos.time): the samples after the peak
Senesce(s, time, peak) == [i \in 1..Len(s) |-> IF time[i] > peak THEN s[i] ELSE NaN]

(***************************************************************************)
(* Lines 152-156.  Line 154 tests isnan(senesce_deriv < 0): the comparison *)
(* is a boolean array, never NaN, so neg_senesce_deriv is senesce_deriv    *)
(* itself.  Line 156 then uses that float array as the where-condition: a  *)
(* sample is kept where the derivative is truthy, i.e. non-zero or NaN.    *)
(***************************************************************************)
NegSenesce(s, time, peak) ==
    LET senesce == Senesce(s, time, peak)
        senesce_deriv == Gradient(senesce, time)
        neg_senesce_deriv == senesce_deriv
        Truthy(d) == IsNaN(d) \/ Val(d) # 0
    IN  [i \in 1..Len(s) |-> IF Truthy(neg_senesce_deriv[i]) THEN senesce[i] ELSE NaN]

(***************************************************************************)
(* .astype("int16") of the index grid returned by allNaN_arg.  Converting  *)
(* NaN to an integer is undefined: the build decides what it becomes       *)
(* (nanCast).  isel(time=idx) wraps a negative index and raises IndexError *)
(* when the index is outside the axis.                                     *)
(***************************************************************************)
AsInt16(x, nanCast) == IF IsNaN(x) THEN nanCast ELSE Val(x)

IselTime(cands, time, idx) ==
    LET n == Len(time)
        InRange(k) == -n <= k /\ k < n
        Pos1(k) == IF k < 0 THEN n + k + 1 ELSE k + 1
    IN  IF \E p \in 1..Len(cands) : ~InRange(idx[p]) THEN Raise("IndexError")
        ELSE Ok([p \in 1..Len(cands) |->
                 [v |-> cands[p][Pos1(idx[p])], t |-> time[Pos1(idx[p])]]])

\* body shared by _vsos and _veos from the candidate grid on:
\* median, distance, allNaN_arg(.., "min"), astype, isel
SelectSample(cands, time, byMedian, nanCast) ==
    LET distance == [p \in 1..Len(cands) |-> Distance2(cands[p])]
        key == IF byMedian THEN [p \in 1..Len(cands) |-> FAbs(distance[p])]
               ELSE distance
        a == allNaN_arg(key, "min")
    IN  IF a.exc # "none" THEN a
        ELSE IselTime(cands, time,
                      [p \in 1..Len(cands) |-> AsInt16(a.val[p], nanCast)])

\* _vsos(da, pos, method_sos): per pixel the selected value v and timestamp t
_vsos(g, time, pos, method_sos, nanCast) ==
    IF method_sos \notin {"first", "median"} THEN Raise("UnboundLocalError")
    ELSE SelectSample([p \in 1..Len(g) |-> PosGreenup(g[p], time, pos[p])],
                      time, method_sos = "median", nanCast)

\* _veos(da, pos, method_eos)
_veos(g, time, pos, method_eos, nanCast) ==
    IF method_eos \notin {"last", "median"} THEN Raise("UnboundLocalError")
    ELSE SelectSample([p \in 1..Len(g) |-> NegSenesce(g[p], time, pos[p])],
                      time, method_eos = "median", nanCast)

\* _sos, _eos: dayofyear of the selected timestamp (always a number)
_sos(vsos) == [p \in 1..Len(vsos) |-> DayOfYear(vsos[p].t)]
_eos(veos) == [p \in 1..Len(veos) |-> DayOfYear(veos[p].t)]

\* _los: eos - sos, a negative difference replaced by
\* da.time.dt.dayofyear.values[-1] + (eos - sos)
_los(time, eos, sos) ==
    [p \in 1..Len(eos) |->
        LET los == eos[p] - sos[p]
        IN  IF los >= 0 THEN los ELSE DayOfYear(time[Len(time)]) + los]

\* _rog = (vpos - vsos) / (pos - sos), _ros = (veos - vpos) / (eos - pos)
_rog(vpos, vsos, pos, sos) ==
    [p \in 1..Len(vpos) |-> FDiv(FSub(vpos[p], vsos[p]), Num(pos[p] - sos[p]))]
_ros(veos, vpos, eos, pos) ==
    [p \in 1..Len(vpos) |-> FDiv(FSub(veos[p], vpos[p]), Num(eos[p] - pos[p]))]

\* ------------------------------------------------------------ orchestrator
\* the default of the stats parameter (lines 211-223)
DefaultStats ==
    <<"SOS", "POS", "EOS", "Trough", "vSOS", "vPOS", "vEOS", "LOS", "AOS", "ROG", "ROS">>

\* the stats_dtype table (lines 283-295), in its insertion order; the casts
\* of stats_dict (lines 359-371) use the same dtypes
StatsDtypeKeys == DefaultStats
stats_dtype(name) ==
    IF name \in {"SOS", "POS", "EOS", "LOS"} THEN "int16" ELSE "float32"

\* a stats argument is a Python list of names or one bare string
StatsList(names) == [list |-> TRUE, names |-> names]
StatsStr(name) == [list |-> FALSE, names |-> <<name>>]

\* the characters of a statistic name, for Python's str-in-str test
Spell(name) ==
    CASE name = "SOS" -> <<"S", "O", "S">>
      [] name = "POS" -> <<"P", "O", "S">>
      [] name = "EOS" -> <<"E", "O", "S">>
      [] name = "LOS" -> <<"L", "O", "S">>
      [] name = "AOS" -> <<"A", "O", "S">>
      [] name = "ROG" -> <<"R", "O", "G">>
      [] name = "ROS" -> <<"R", "O", "S">>
      [] name = "vSOS" -> <<"v", "S", "O", "S">>
      [] name = "vPOS" -> <<"v", "P", "O", "S">>
      [] name = "vEOS" -> <<"v", "E", "O", "S">>
      [] name = "Trough" -> <<"T", "r", "o", "u", "g", "h">>

Substring(a, b) ==
    \E k \in 0..(Len(b) - Len(a)) : \A i \in 1..Len(a) : b[k + i] = a[i]

\* Python's `var_name in stats` (line 301): list membership for a list,
\* substring test for a str
PyIn(name, stats) ==
    IF stats.list THEN \E i \in 1..Len(stats.names) : stats.names[i] = name
    ELSE Substring(Spell(name), Spell(stats.names[1]))

\* line 331: stats if isinstance(stats, list) else [stats]
NormalizeStats(stats) == stats.names

\* a dataset variable: dtype and one value per pixel
Var(dtype, data) == [dtype |-> dtype, data |-> data]
IntGrid(g) == [p \in 1..Len(g) |-> Num(g[p])]

(***************************************************************************)
(* The in-memory body of xr_phenology (lines 324-388): validate the        *)
(* selectors, normalise stats, zero-fill the all-NaN pixels, run every     *)
(* extractor in order, build stats_dict, pick the requested entries.       *)
(* Returns Ok(dataset) or the exception that escapes.                      *)
(***************************************************************************)
Eager(g, time, stats, method_sos, method_eos, nanCast) ==
    IF method_sos \notin {"median", "first"} THEN Raise("ValueError")
    ELSE IF method_eos \notin {"median", "last"} THEN Raise("ValueError")
    ELSE
    LET names == NormalizeStats(stats)
        mask == [p \in 1..Len(g) |-> AllNull(g[p])]
        filled == [p \in 1..Len(g) |->
                      IF mask[p] THEN [i \in 1..Len(g[p]) |-> Num(0)] ELSE g[p]]
        vpos == _vpos(filled)
        \* no slice of the filled grid is all-NaN, so argmax does not raise
        posT == _pos(filled, time).val
        pos == [p \in 1..Len(g) |-> DayOfYear(posT[p])]
        trough == _trough(filled)
        aos == _aos(vpos, trough)
        vsosR == _vsos(filled, time, posT, method_sos, nanCast)
    IN  IF vsosR.exc # "none" THEN vsosR
        ELSE
        LET vsos == vsosR.val
            sos == _sos(vsos)
            veosR == _veos(filled, time, posT, method_eos, nanCast)
        IN  IF veosR.exc # "none" THEN veosR
            ELSE
            LET veos == veosR.val
                eos == _eos(veos)
                los == _los(time, eos, sos)
                vsosV == [p \in 1..Len(g) |-> vsos[p].v]
                veosV == [p \in 1..Len(g) |-> veos[p].v]
                rog == _rog(vpos, vsosV, pos, sos)
                ros == _ros(veosV, vpos, eos, pos)
                stats_dict == [n \in {DefaultStats[k] : k \in 1..Len(DefaultStats)} |->
                    Var(stats_dtype(n),
                        CASE n = "SOS" -> IntGrid(sos)
                          [] n = "EOS" -> IntGrid(eos)
                          [] n = "vSOS" -> vsosV
                          [] n = "vPOS" -> vpos
                          [] n = "Trough" -> trough
                          [] n = "POS" -> IntGrid(pos)
                          [] n = "vEOS" -> veosV
                          [] n = "LOS" -> IntGrid(los)
                          [] n = "AOS" -> aos
                          [] n = "ROG" -> rog
                          [] n = "ROS" -> ros)]
            IN  IF Len(names) = 0 THEN Raise("IndexError")
                ELSE IF \E k \in 1..Len(names) : names[k] \notin DOMAIN stats_dict
                THEN Raise("KeyError")
                ELSE Ok([n \in {names[k] : k \in 1..Len(names)} |-> stats_dict[n]])

\* the output-schema template of the dask branch (lines 296-303)
Template(stats) ==
    [n \in {StatsDtypeKeys[k] : k \in 1..Len(StatsDtypeKeys)} \cap
           {m \in {StatsDtypeKeys[k] : k \in 1..Len(StatsDtypeKeys)} : PyIn(m, stats)}
        |-> stats_dtype(n)]

\* ------------------------------------------------------------------ inputs
Samples == {NaN} \cup {Num(v) : v \in 0..MaxVal}
Lengths == 2..4
Series(n) == [1..n -> Samples]

\* time axes: monthly steps from 1 January; irregular steps from 20 July
\* that run into the next year
Monthly(n) == [i \in 1..n |-> 30 * (i - 1)]
Crossing(n) == SubSeq(<<200, 300, 370, 380>>, 1, n)
Axes(n) == {Monthly(n), Crossing(n)}

\* the first pixel ranges over every series; the other pixels of the grid
\* are a never-observed pixel or one with a full season
Unobserved(n) == [i \in 1..n |-> NaN]
Season(n) == SubSeq(<<Num(0), Num(1), Num(2), Num(0)>>, 1, n)
Companions(n) == {Unobserved(n), Season(n)}
Grids(n) == {<<s>> \o c : s \in Series(n), c \in [1..(NumPix - 1) -> Companions(n)]}

\* what float-NaN -> int16 yields: 0 (truncating conversion) or -32768
\* (saturating conversion)
NanCasts == {0, -32768}

\* spatial chunkings of a dask-backed grid: sizes of consecutive tiles
RECURSIVE SumSeq(_)
SumSeq(q) == IF q = <<>> THEN 0 ELSE q[1] + SumSeq(Tail(q))
Tilings == {c \in UNION {[1..k -> 1..NumPix] : k \in 1..NumPix} : SumSeq(c) = NumPix}

\* the pixels of tile k
Tile(g, c, k) ==
    LET off == SumSeq(SubSeq(c, 1, k - 1))
    IN  [p \in 1..c[k] |-> g[off + p]]

\* the calls made: every valid selector pair on the default list, every
\* form of the stats argument, and selectors outside the accepted values
Request(stats, ms, me) == [stats |-> stats, method_sos |-> ms, method_eos |-> me]
StatsForms ==
    { StatsList(DefaultStats),
      StatsList(<<>>),
      StatsList(<<"vPOS", "Trough", "AOS">>),
      StatsList(<<"LOS", "EOS", "SOS">>),
      StatsList(<<"POS", "vPOS", "Trough", "AOS">>),
      StatsStr("vSOS"),
      StatsStr("POS") }
Requests ==
    {Request(StatsList(DefaultStats), ms, me) :
        <<ms, me>> \in {"first", "median"} \X {"last", "median"}}
    \cup {Request(f, "first", "last") : f \in StatsForms}
    \cup {Request(StatsList(DefaultStats), "last", "last"),
          Request(StatsList(DefaultStats), "first", "first")}

\* the calls made on dask-backed input
DaskRequests ==
    { Request(StatsList(DefaultStats), "first", "last"),
      Request(StatsList(DefaultStats), "median", "median"),
      Request(StatsList(DefaultStats), "last", "last"),
      Request(StatsList(DefaultStats), "first", "first"),
      Request(StatsList(<<"vPOS", "Trough", "AOS">>), "first", "last"),
      Request(StatsList(<<>>), "first", "last"),
      Request(StatsStr("vSOS"), "first", "last"),
      Request(StatsStr("POS"), "first", "last") }

\* ------------------------------------------------------------------- state
VARIABLES
    da,        \* the input grid
    time,      \* its time coordinate
    chunks,    \* <<>> for a numpy-backed array, else the dask tiling
    nanCast,   \* what this build makes of NaN.astype(int16)
    pc,        \* "idle", "returned", "raised", "deferred", "computing", "computed"
    call,      \* the function called and its arguments
    template,  \* the template handed to map_blocks
    blocks,    \* per tile: pending, or the outcome of the mapped function
    out        \* what the caller has: a returned value or a raised exception

vars == <<da, time, chunks, nanCast, pc, call, template, blocks, out>>

NoCall == [fn |-> "none", stat |-> "", req |-> Request(StatsList(<<>>), "", "")]
Pending == [exc |-> "pending", val |-> <<>>]

is_dask_collection == chunks # <<>>

InitInput ==
    /\ \E n \in Lengths : da \in Grids(n) /\ time \in Axes(n)
    /\ nanCast \in NanCasts
    /\ pc = "idle"
    /\ call = NoCall
    /\ template = <<>>
    /\ blocks = <<>>
    /\ out = Pending

\* a numpy-backed input
Init == chunks = <<>> /\ InitInput
\* a dask-backed input
InitDask == chunks \in Tilings /\ InitInput

Finish(r) == IF r.exc = "none" THEN "returned" ELSE "raised"

\* xr_phenology(da, stats, method_sos, method_eos) on in-memory input:
\* line 277 is false and lines 324-388 run
EagerCall(req) ==
    /\ pc = "idle"
    /\ ~is_dask_collection
    /\ out' = Eager(da, time, req.stats, req.method_sos, req.method_eos, nanCast)
    /\ pc' = Finish(out')
    /\ call' = [fn |-> "xr_phenology", stat |-> "", req |-> req]
    /\ UNCHANGED <<da, time, chunks, nanCast, template, blocks>>

\* allNaN_arg(da, "time", stat) called on the in-memory grid
ArgCall(stat) ==
    /\ pc = "idle"
    /\ ~is_dask_collection
    /\ out' = allNaN_arg(da, stat)
    /\ pc' = Finish(out')
    /\ call' = [fn |-> "allNaN_arg", stat |-> stat, req |-> NoCall.req]
    /\ UNCHANGED <<da, time, chunks, nanCast, template, blocks>>

(***************************************************************************)
(* xr_phenology on dask input (lines 277-322): the xarray version check,   *)
(* the template, map_blocks, return of the lazy dataset.  Nothing else is  *)
(* looked at: the selectors and the stats list travel in kwargs.           *)
(***************************************************************************)
LazyCall(req, xrOld) ==
    /\ pc = "idle"
    /\ is_dask_collection
    /\ call' = [fn |-> "xr_phenology", stat |-> "", req |-> req]
    /\ IF xrOld
       THEN /\ out' = Raise("TypeError")
            /\ pc' = "raised"
            /\ UNCHANGED <<template, blocks>>
       ELSE /\ template' = Template(req.stats)
            /\ blocks' = [k \in 1..Len(chunks) |-> Pending]
            /\ pc' = "deferred"
            /\ UNCHANGED out
    /\ UNCHANGED <<da, time, chunks, nanCast>>

\* the caller materialises the lazy dataset (.compute() / .load())
Compute ==
    /\ pc = "deferred"
    /\ pc' = "computing"
    /\ UNCHANGED <<da, time, chunks, nanCast, call, template, blocks, out>>

\* check_result_variables of map_blocks' wrapper: data variables missing
\* from or added to the template's raise ValueError
CheckResultVariables(r, expected) ==
    IF r.exc # "none" THEN r
    ELSE IF DOMAIN r.val # DOMAIN expected THEN Raise("ValueError")
    ELSE r

\* map_blocks' wrapper around the user function: run it on the block, then
\* check the result against the template
Wrapper(g, req) ==
    CheckResultVariables(
        Eager(g, time, req.stats, req.method_sos, req.method_eos, nanCast), template)

\* the scheduler runs one pending block; an exception in a task ends the
\* computation and reaches the caller
RunBlock(k) ==
    /\ pc = "computing"
    /\ k \in DOMAIN blocks
    /\ blocks[k] = Pending
    /\ blocks' = [blocks EXCEPT ![k] = Wrapper(Tile(da, chunks, k), call.req)]
    /\ pc' = IF blocks'[k].exc # "none" THEN "raised" ELSE pc
    /\ out' = IF blocks'[k].exc # "none" THEN blocks'[k] ELSE out
    /\ UNCHANGED <<da, time, chunks, nanCast, call, template>>

\* every block is done: the tiles are laid side by side in the template's
\* variables and handed to the caller
RECURSIVE Concat(_, _, _)
Concat(bs, n, k) ==
    IF k > Len(bs) THEN <<>> ELSE bs[k].val[n].data \o Concat(bs, n, k + 1)

Gather ==
    /\ pc = "computing"
    /\ \A k \in 1..Len(chunks) : blocks[k].exc = "none"
    /\ out' = Ok([n \in DOMAIN template |-> Var(template[n], Concat(blocks, n, 1))])
    /\ pc' = "computed"
    /\ UNCHANGED <<da, time, chunks, nanCast, call, template, blocks>>

Next ==
    \/ \E req \in Requests : EagerCall(req)
    \/ \E stat \in {"min", "max"} : ArgCall(stat)

NextDask ==
    \/ \E req \in DaskRequests, xrOld \in BOOLEAN : LazyCall(req, xrOld)
    \/ Compute
    \/ \E k \in 1..NumPix : RunBlock(k)
    \/ Gather

Spec == Init /\ [][Next]_vars
SpecDask == InitDask /\ [][NextDask]_vars

\* ------------------------------------------------------------- properties
CalledPhenology == call.fn = "xr_phenology"
ValidSelectors(req) ==
    req.method_sos \in {"first", "median"} /\ req.method_eos \in {"last", "median"}
Requested(req) == {NormalizeStats(req.stats)[k] : k \in 1..Len(NormalizeStats(req.stats))}
Pixels == 1..Len(da)
Returned == pc = "returned" /\ CalledPhenology
Stat(n, p) == out.val[n].data[p]
\* the timestamp of the pixel's maximum (first occurrence)
PeakTime(p) == time[ArgMaxTime(<<da[p]>>).val[1] + 1]

\* C1: at a pixel whose series is NaN at every timestamp, every requested
\* statistic returned by xr_phenology is NaN.
C1_UnobservedPixelMissing ==
    Returned =>
        \A p \in Pixels : AllNull(da[p]) =>
            \A n \in DOMAIN out.val : IsNaN(Stat(n, p))

\* C2: a call of xr_phenology with a selector outside the accepted values
\* (on a supported xarray) ends at the call itself with ValueError: no
\* template is built, no block is scheduled, no lazy result is returned.
C2_InvalidSelectorFailsAtCall ==
    (CalledPhenology /\ ~ValidSelectors(call.req) /\ out.exc # "TypeError") =>
        /\ pc = "raised"
        /\ out.exc = "ValueError"
        /\ Len(blocks) = 0

\* C3: with valid selectors and a list of distinct statistic names (the
\* empty list included), xr_phenology on in-memory input returns, and the
\* variables of the returned dataset are exactly the requested names.
C3_ExactlyRequested ==
    (CalledPhenology /\ ~is_dask_collection /\ ValidSelectors(call.req)
        /\ call.req.stats.list) =>
        /\ pc = "returned"
        /\ DOMAIN out.val = Requested(call.req)

\* C4: the season length returned at a pixel that has at least one
\* observation is never negative.  (Stated for the pixels at which a start
\* and an end of season were found, i.e. vSOS and vEOS are numbers.)
C4_LosNonNegative ==
    (Returned /\ {"LOS", "vSOS", "vEOS"} \subseteq DOMAIN out.val) =>
        \A p \in Pixels :
            (~AllNull(da[p]) /\ ~IsNaN(Stat("vSOS", p)) /\ ~IsNaN(Stat("vEOS", p))) =>
                Val(Stat("LOS", p)) >= 0

\* C5: numeric degeneracy is never an error: allNaN_arg returns an index
\* grid that is NaN at the all-NaN pixels, and xr_phenology called with
\* valid selectors and a non-empty list of statistic names returns.
C5_DegeneracyNeverRaises ==
    /\ call.fn = "allNaN_arg" =>
          /\ pc = "returned"
          /\ \A p \in Pixels : AllNull(da[p]) => IsNaN(out.val[p])
    /\ (CalledPhenology /\ ValidSelectors(call.req) /\ call.req.stats.list
           /\ Len(call.req.stats.names) > 0) =>
          pc = "returned"

\* C6: once a lazy result over two or more spatial tiles has been
\* materialised (or its materialisation has failed), the caller holds what
\* the in-memory call on the whole grid gives: the same exception, or the
\* same dataset cell for cell.  (Stated for stats passed as a non-empty
\* list.)
C6_DeferredEqualsEager ==
    (CalledPhenology /\ is_dask_collection /\ Len(chunks) >= 2
        /\ pc \in {"computed", "raised"} /\ out.exc # "TypeError"
        /\ call.req.stats.list /\ Len(call.req.stats.names) > 0) =>
        LET e == Eager(da, time, call.req.stats, call.req.method_sos,
                       call.req.method_eos, nanCast)
        IN  /\ out.exc = e.exc
            /\ out.exc = "none" => out.val = e.val

\* C7: the template built for chunked input has exactly the requested
\* statistics as its variables, each with its canonical dtype, whether
\* stats was a list or one bare name.
C7_TemplateMatchesRequest ==
    (CalledPhenology /\ Len(blocks) > 0) =>
        /\ DOMAIN template = Requested(call.req)
        /\ \A n \in DOMAIN template : template[n] = stats_dtype(n)

\* C8: at a pixel with exactly one non-NaN sample v, at time t, the
\* returned vPOS and Trough are v, AOS is 0 and POS is dayofyear(t).
SingleSample(p) == Cardinality(Valid(da[p])) = 1
TheSample(p) == CHOOSE i \in Valid(da[p]) : TRUE
C8_SingleSample ==
    Returned =>
        \A p \in Pixels : SingleSample(p) =>
            \A n \in DOMAIN out.val :
                /\ n = "vPOS" => Stat(n, p) = da[p][TheSample(p)]
                /\ n = "Trough" => Stat(n, p) = da[p][TheSample(p)]
                /\ n = "AOS" => Stat(n, p) = Num(0)
                /\ n = "POS" => Stat(n, p) = Num(DayOfYear(time[TheSample(p)]))

\* C8 witness: a returned dataset holding all four statistics for a pixel
\* whose only sample is non-zero and lies after the first timestamp
C8_Witness ==
    /\ Returned
    /\ {"vPOS", "Trough", "AOS", "POS"} \subseteq DOMAIN out.val
    /\ \E p \in Pixels :
          /\ SingleSample(p)
          /\ TheSample(p) > 1
          /\ Val(da[p][TheSample(p)]) > 0
          /\ Stat("vPOS", p) = da[p][TheSample(p)]

\* C9: at an observed pixel with no rising sample before its peak, the
\* returned start of season is missing in value (vSOS) and position (SOS).
NoRisingSample(p) == AllNull(PosGreenup(da[p], time, PeakTime(p)))
C9_NoRisingSampleMissing ==
    Returned =>
        \A p \in Pixels : (~AllNull(da[p]) /\ NoRisingSample(p)) =>
            \A n \in DOMAIN out.val \cap {"vSOS", "SOS"} : IsNaN(Stat(n, p))

\* C10: the sample returned as end of season at an observed pixel lies
\* after the peak and the derivative of the post-peak series is negative
\* there.
EosIndex(p) == CHOOSE i \in 1..Len(time) : DayOfYear(time[i]) = Val(Stat("EOS", p))
C10_EosNegativeSlope ==
    (Returned /\ {"vEOS", "EOS"} \subseteq DOMAIN out.val) =>
        \A p \in Pixels : (~AllNull(da[p]) /\ ~IsNaN(Stat("vEOS", p))) =>
            LET d == Gradient(Senesce(da[p], time, PeakTime(p)), time)[EosIndex(p)]
            IN  /\ time[EosIndex(p)] > PeakTime(p)
                /\ ~IsNaN(d)
                /\ Val(d) < 0

====
